---- MODULE Spec2Model ----
(***************************************************************************)
(* Model of the rt.vdso runtime bridge of Motor OS:                        *)
(*   - the POSIX descriptor table (src/sys/lib/rt.vdso/src/posix.rs):      *)
(*     struct Descriptors with its two spin mutexes, the posix_* entry     *)
(*     points, the Placeholder object;                                     *)
(*   - the vtable installation routine _rt_entry                           *)
(*     (src/sys/lib/rt.vdso/src/main.rs).                                  *)
(* Several threads call the descriptor table concurrently.  A step of the  *)
(* model is one critical section (lock, body, unlock) or one call of user  *)
(* code (constructor, object method) outside the locks.  Every access to   *)
(* the slot array and to the free list is made under its mutex and no      *)
(* critical section takes a second lock, so the sections are atomic.       *)
(***************************************************************************)
EXTENDS Integers, Sequences, FiniteSets, TLC

\* ---------------------------------------------------------------- bounds
MaxThreads == 2
MaxObjects == 3
MaxSlots == 2
MaxOps == 4
MaxCalls == 2

\* ------------------------------------------------------ program constants
E_OK == 0
E_INVALID_ARGUMENT == 8
E_BAD_HANDLE == 18
RtFdMax == 2147483647
SupportedVersion == 1

\* ----------------------------------------------------------------- values
Threads == 1..MaxThreads
NoThread == 0

\* Arc<dyn PosixFile> values held in slots and in thread locals.  Every
\* Arc::new(Placeholder) is represented by the one value Placeholder; the
\* objects built by constructors are ObjNames[1], ObjNames[2], ...
Placeholder == "Placeholder"
None == "None"
ObjNames == [i \in 1..MaxObjects |-> <<"A", "B", "C", "D", "E">>[i]]
Objects == {ObjNames[i] : i \in 1..MaxObjects}

\* The handle arguments callers pass: in range, out of range and negative.
FdArgs == (0 - 1)..(MaxSlots - 1)

Ops == {"new_file", "get_file", "pop_file", "posix_read", "posix_write",
        "posix_flush", "posix_close", "posix_duplicate"}

\* Result<usize, ErrorCode> values an object's own method may produce.
ObjResults == {[ok |-> TRUE, v |-> 1], [ok |-> FALSE, v |-> E_INVALID_ARGUMENT]}

VARIABLES
    descriptors,   \* Descriptors.descriptors : Vec<Arc<dyn PosixFile>>
    freelist,      \* Descriptors.freelist : Vec<RtFd>
    dlock,         \* holder of the descriptors mutex, NoThread when free
    flock,         \* holder of the freelist mutex, NoThread when free
    pc,            \* per thread: position in the running call
    op,            \* per thread: the entry point being executed
    arg,           \* per thread: the rt_fd argument of the call
    fd,            \* per thread: the fd reserved by get_free_fd
    val,           \* per thread: the Arc held in a local (None if none)
    ret,           \* per thread: integer result of the finished call
    oret,          \* per thread: the Result the object's method returned
                   \* in the running call (<<>> if no method was called)
    nextObj,       \* number of objects constructed so far
    refs,          \* per object: strong count of its Arc
    closed,        \* per object: number of close() calls it received
    crashed,       \* a panic!() / failed assert has ended the process
    nops,          \* number of descriptor-table calls started, counted
                   \* against MaxOps
    held,          \* per handle: objects of the allocations that returned
                   \* it and that no release call has followed (history)
    ipc,           \* _rt_entry: position in the install routine
    version,       \* _rt_entry: the version argument of the running call
    vtable,        \* RtVdsoVtableV1: slot name -> stored value
    istep,         \* _rt_entry: number of slot stores done in this call
    fenced,        \* the trailing release fence has been issued
    writes,        \* per slot: number of stores it received (history)
    calls          \* number of _rt_entry calls made

tvars == <<descriptors, freelist, dlock, flock, pc, op, arg, fd, val, ret, oret,
           nextObj, refs, closed, crashed, nops, held>>
ivars == <<ipc, version, vtable, istep, fenced, writes, calls>>
vars == <<descriptors, freelist, dlock, flock, pc, op, arg, fd, val, ret, oret,
          nextObj, refs, closed, crashed, nops, held,
          ipc, version, vtable, istep, fenced, writes, calls>>

\* ---------------------------------------------------------------- helpers
\* Vec::get(fd as usize) / Vec::get_mut(fd as usize): is there an entry?
\* `fd as usize` sign-extends a negative i32 to a value of at least
\* 2^64 - 2^31, above every possible Vec length, so a negative fd finds
\* no entry; a non-negative fd is converted unchanged.
HasEntry(vec, n) == n >= 0 /\ n < Len(vec)

\* The entry found (Sequences are 1-based, Vec is 0-based).
Entry(vec, n) == vec[n + 1]

IsObject(v) == v \in Objects

\* Arc::clone and Drop for Arc on the strong counts.
ArcClone(r, v) == IF IsObject(v) THEN [r EXCEPT ![v] = @ + 1] ELSE r
\* A drop that destroys the object whatever other references remain.
ArcDropDestroys(r, v) == IF IsObject(v) THEN [r EXCEPT ![v] = 0] ELSE r

ArcDrop(r, v) == IF IsObject(v) THEN [r EXCEPT ![v] = @ - 1] ELSE r

Front(s) == SubSeq(s, 1, Len(s) - 1)
Last(s) == s[Len(s)]

Running(t) == pc[t] \notin {"idle", "done"}

\* Thread t starts entry point o with argument n: it is called now, or it
\* was entered earlier (position "enter") and has not run its first
\* critical section yet.  A call counts against MaxOps when it is made.
Starts(t, o, n) ==
    \/ pc[t] = "idle" /\ nops < MaxOps
    \/ pc[t] = "enter" /\ op[t] = o /\ arg[t] = n
Counted(t) == IF pc[t] = "idle" THEN nops + 1 ELSE nops

\* Allocations in flight that have not yet tried the free list, and those
\* that found it empty and will grow the slot array.
PendingPop ==
    Cardinality({t \in Threads :
        pc[t] = "gff" \/ (pc[t] = "enter" /\ op[t] \in {"new_file", "posix_duplicate"})})
PendingGrow == Cardinality({t \in Threads : pc[t] = "push"})

\* Bound of the model: an allocation starts only if it cannot take the
\* slot array beyond MaxSlots.
RoomToAllocate ==
    \/ Len(freelist) > PendingPop
    \/ Len(descriptors) + PendingGrow + PendingPop < MaxSlots

\* Bound of the model: new_file is called by t only if its object and its
\* slot stay within MaxObjects and MaxSlots.
RoomForNewFile(t) ==
    /\ nextObj + Cardinality({u \in Threads \ {t} :
            Running(u) /\ op[u] = "new_file" /\ val[u] = None}) < MaxObjects
    /\ RoomToAllocate

TableInit ==
    /\ descriptors = <<>>
    /\ freelist = <<>>
    /\ dlock = NoThread
    /\ flock = NoThread
    /\ pc = [t \in Threads |-> "idle"]
    /\ op = [t \in Threads |-> "none"]
    /\ arg = [t \in Threads |-> 0]
    /\ fd = [t \in Threads |-> 0]
    /\ val = [t \in Threads |-> None]
    /\ ret = [t \in Threads |-> 0]
    /\ oret = [t \in Threads |-> <<>>]
    /\ nextObj = 0
    /\ refs = [o \in Objects |-> 0]
    /\ closed = [o \in Objects |-> 0]
    /\ crashed = FALSE
    /\ nops = 0
    /\ held = [h \in 0..(MaxSlots - 1) |-> <<>>]

\* ------------------------------------------------------- Descriptors::get
\* Result of Descriptors::get: a clone of the entry, or None.
GetResult(vec, n) == IF HasEntry(vec, n) THEN Entry(vec, n) ELSE None

\* Where a call goes once Descriptors::get has returned v.
AfterGet(o, v) ==
    IF o = "get_file" THEN "done"
    ELSE IF v = None THEN "done"
    ELSE IF o = "posix_duplicate" THEN "gff"
    ELSE "call"

\* A not-found code that is not negated.
NotFoundReturnPositive(o) == E_BAD_HANDLE

\* What entry point o returns when get_file / pop_file gave None:
\* -(E_BAD_HANDLE) from posix_read, posix_write and posix_duplicate,
\* E_BAD_HANDLE from posix_flush and posix_close.  (get_file and pop_file
\* return the None itself; ret is not used.)
NotFoundReturn(o) ==
    IF o \in {"posix_read", "posix_write", "posix_duplicate"} THEN 0 - E_BAD_HANDLE
    ELSE IF o \in {"posix_flush", "posix_close"} THEN E_BAD_HANDLE
    ELSE 0

\* A lookup that takes the entry out of its slot, as pop does.
GetCallTaking(t, o, n) ==
    /\ ~crashed /\ Starts(t, o, n)
    /\ dlock \in {NoThread, t}
    /\ LET v == GetResult(descriptors, n)
       IN /\ op' = [op EXCEPT ![t] = o]
          /\ arg' = [arg EXCEPT ![t] = n]
          /\ val' = [val EXCEPT ![t] = v]
          /\ descriptors' = IF HasEntry(descriptors, n)
                            THEN [descriptors EXCEPT ![n + 1] = Placeholder]
                            ELSE descriptors
          /\ pc' = [pc EXCEPT ![t] = AfterGet(o, v)]
          /\ ret' = [ret EXCEPT ![t] = IF v = None THEN NotFoundReturn(o) ELSE 0]
    /\ nops' = Counted(t)
    /\ dlock' = NoThread
    /\ UNCHANGED <<freelist, flock, fd, oret, nextObj, refs, closed, crashed, held>>
    /\ UNCHANGED ivars

\* Entry point o is called with rt_fd n and runs Descriptors::get: lock
\* descriptors, clone the entry if there is one, unlock.  posix_read and
\* posix_duplicate return the bad-handle code at once on None.
GetCall(t, o, n) ==
    /\ ~crashed /\ Starts(t, o, n)
    /\ dlock \in {NoThread, t}
    /\ LET v == GetResult(descriptors, n)
       IN /\ op' = [op EXCEPT ![t] = o]
          /\ arg' = [arg EXCEPT ![t] = n]
          /\ val' = [val EXCEPT ![t] = v]
          /\ refs' = ArcClone(refs, v)
          /\ pc' = [pc EXCEPT ![t] = AfterGet(o, v)]
          /\ ret' = [ret EXCEPT ![t] = IF v = None THEN NotFoundReturn(o) ELSE 0]
    /\ nops' = Counted(t)
    /\ dlock' = NoThread
    /\ UNCHANGED <<descriptors, freelist, flock, fd, oret, nextObj, closed, crashed, held>>
    /\ UNCHANGED ivars

\* get_file(rt_fd)
CallGetFile(t) == \E n \in FdArgs : GetCall(t, "get_file", n)

\* posix_duplicate(rt_fd): get_file, then push_file of the Arc it got.
CallDuplicate(t) ==
    /\ pc[t] = "idle" => RoomToAllocate
    /\ \E n \in FdArgs : GetCall(t, "posix_duplicate", n)

\* posix_read(rt_fd, buf): get_file, then read on the Arc it got.
CallRead(t) == \E n \in FdArgs : GetCall(t, "posix_read", n)

\* posix_write(rt_fd, buf): get_file, then write on the Arc it got.
CallWrite(t) == \E n \in FdArgs : GetCall(t, "posix_write", n)

\* posix_flush(rt_fd): get_file, then flush on the Arc it got.
CallFlush(t) == \E n \in FdArgs : GetCall(t, "posix_flush", n)

\* ----------------------------------------------- Descriptors::get_free_fd
\* The fd and the continuation of `freelist.lock().pop()` in get_free_fd:
\* Some(fd) is returned to insert, None goes on to grow the slot array.
PoppedFd(t) == IF freelist # <<>> THEN Last(freelist) ELSE fd[t]
AfterFreelistPop == IF freelist # <<>> THEN "func" ELSE "push"
\* A pop that leaves the popped index in the free list.
FreelistKept == freelist

\* A get_free_fd whose free-list guard lives on into the growth branch.
FlockAfterPopHeld(t) == IF freelist = <<>> THEN t ELSE NoThread

\* The holder of the free-list mutex after `if let Some(fd) =
\* self.freelist.lock().pop() { return fd; }`: the guard is a temporary of
\* the if-let statement and is dropped at its end on both paths.
FlockAfterPop(t) == NoThread

FreelistPopped == IF freelist # <<>> THEN Front(freelist) ELSE freelist

\* new_file is called: Descriptors::insert -> get_free_fd locks the free
\* list, pops, unlocks.
CallNewFile(t) ==
    /\ ~crashed /\ Starts(t, "new_file", 0)
    /\ flock \in {NoThread, t}
    /\ pc[t] = "idle" => RoomForNewFile(t)
    /\ op' = [op EXCEPT ![t] = "new_file"]
    /\ fd' = [fd EXCEPT ![t] = PoppedFd(t)]
    /\ freelist' = FreelistPopped
    /\ pc' = [pc EXCEPT ![t] = AfterFreelistPop]
    /\ nops' = Counted(t)
    /\ flock' = FlockAfterPop(t)
    /\ UNCHANGED <<descriptors, dlock, arg, val, ret, oret, nextObj, refs, closed, crashed, held>>
    /\ UNCHANGED ivars

\* posix_duplicate -> push_file -> insert -> get_free_fd: the same pop.
GffPop(t) ==
    /\ ~crashed /\ pc[t] = "gff"
    /\ flock \in {NoThread, t}
    /\ fd' = [fd EXCEPT ![t] = PoppedFd(t)]
    /\ freelist' = FreelistPopped
    /\ pc' = [pc EXCEPT ![t] = AfterFreelistPop]
    /\ flock' = FlockAfterPop(t)
    /\ UNCHANGED <<nops, descriptors, dlock, op, arg, val, ret, oret, nextObj, refs, closed, crashed, held>>
    /\ UNCHANGED ivars

\* get_free_fd with an empty free list: lock descriptors, push a
\* Placeholder, res = len - 1, unlock, then assert!(res < RtFd::MAX).
GffPush(t) ==
    /\ ~crashed /\ pc[t] = "push"
    /\ dlock \in {NoThread, t}
    /\ descriptors' = Append(descriptors, Placeholder)
    /\ LET res == Len(descriptors') - 1
       IN IF res < RtFdMax
          THEN /\ fd' = [fd EXCEPT ![t] = res]
               /\ pc' = [pc EXCEPT ![t] = "func"]
               /\ UNCHANGED crashed
          ELSE /\ crashed' = TRUE
               /\ UNCHANGED <<fd, pc>>
    /\ dlock' = NoThread
    /\ UNCHANGED <<nops, freelist, flock, op, arg, val, ret, oret, nextObj, refs, closed, held>>
    /\ UNCHANGED ivars

\* ---------------------------------------------------- Descriptors::insert
\* func(fd): the constructor runs with no lock held.  new_file builds a
\* new object (its Arc has strong count 1); push_file's closure returns
\* the Arc that posix_duplicate got from get_file.
Func(t) ==
    /\ ~crashed /\ pc[t] = "func"
    /\ IF op[t] = "new_file"
       THEN /\ nextObj' = nextObj + 1
            /\ val' = [val EXCEPT ![t] = ObjNames[nextObj + 1]]
            /\ refs' = [refs EXCEPT ![ObjNames[nextObj + 1]] = 1]
       ELSE UNCHANGED <<nextObj, val, refs>>
    /\ pc' = [pc EXCEPT ![t] = "ins"]
    /\ UNCHANGED <<nops, descriptors, freelist, dlock, flock, op, arg, fd, ret, oret, closed, crashed, held>>
    /\ UNCHANGED ivars

\* insert: lock descriptors, *entry = val (val moves into the slot, the
\* previous occupant is dropped), unlock, return fd to the caller of
\* new_file / posix_duplicate; the thread is free for its next call.
\* get_mut(fd).unwrap() panics if there is no entry.
InsStore(t) ==
    /\ ~crashed /\ pc[t] = "ins"
    /\ dlock \in {NoThread, t}
    /\ IF HasEntry(descriptors, fd[t])
       THEN /\ descriptors' = [descriptors EXCEPT ![fd[t] + 1] = val[t]]
            /\ refs' = ArcDrop(refs, Entry(descriptors, fd[t]))
            /\ held' = [held EXCEPT ![fd[t]] = Append(@, val[t])]
            /\ val' = [val EXCEPT ![t] = None]
            /\ pc' = [pc EXCEPT ![t] = "idle"]
            /\ op' = [op EXCEPT ![t] = "none"]
            /\ arg' = [arg EXCEPT ![t] = 0]
            /\ fd' = [fd EXCEPT ![t] = 0]
            /\ UNCHANGED crashed
       ELSE /\ crashed' = TRUE
            /\ UNCHANGED <<descriptors, refs, val, held, pc, op, arg, fd>>
    /\ dlock' = NoThread
    /\ UNCHANGED <<nops, freelist, flock, ret, oret, nextObj, closed>>
    /\ UNCHANGED ivars

\* ------------------------------------------------------- Descriptors::pop
\* Entry point o is called with rt_fd n and runs the first block of
\* Descriptors::pop: lock descriptors, swap the entry with a new
\* Placeholder, unlock; with no entry, return None (posix_close then
\* returns E_BAD_HANDLE).  The release of the handle ends the allocations
\* recorded for it.
PopCall(t, o, n) ==
    /\ ~crashed /\ Starts(t, o, n)
    /\ dlock \in {NoThread, t}
    /\ op' = [op EXCEPT ![t] = o]
    /\ arg' = [arg EXCEPT ![t] = n]
    /\ held' = [h \in DOMAIN held |-> IF h = n THEN <<>> ELSE held[h]]
    /\ IF HasEntry(descriptors, n)
       THEN /\ val' = [val EXCEPT ![t] = Entry(descriptors, n)]
            /\ descriptors' = [descriptors EXCEPT ![n + 1] = Placeholder]
            /\ pc' = [pc EXCEPT ![t] = "pop_push"]
            /\ UNCHANGED ret
       ELSE /\ val' = [val EXCEPT ![t] = None]
            /\ ret' = [ret EXCEPT ![t] = NotFoundReturn(o)]
            /\ pc' = [pc EXCEPT ![t] = "done"]
            /\ UNCHANGED descriptors
    /\ nops' = Counted(t)
    /\ dlock' = NoThread
    /\ UNCHANGED <<freelist, flock, fd, oret, nextObj, refs, closed, crashed>>
    /\ UNCHANGED ivars

\* pop_file(rt_fd)
CallPopFile(t) == \E n \in FdArgs : PopCall(t, "pop_file", n)

\* posix_close(rt_fd): pop_file, then close on the Arc it got.
CallClose(t) == \E n \in FdArgs : PopCall(t, "posix_close", n)

\* A push onto the free list that returns with the mutex still locked.
PopPushHolding(t) ==
    /\ ~crashed /\ pc[t] = "pop_push"
    /\ flock \in {NoThread, t}
    /\ freelist' = Append(freelist, arg[t])
    /\ flock' = t
    /\ pc' = [pc EXCEPT ![t] = IF op[t] = "posix_close" THEN "call" ELSE "done"]
    /\ UNCHANGED <<nops, descriptors, dlock, op, arg, fd, val, ret, oret, nextObj, refs, closed, crashed, held>>
    /\ UNCHANGED ivars

\* pop: val.is_some(), so lock the free list, push(fd), unlock; pop_file
\* returns Some(val), posix_close goes on to call close() on it.
PopPush(t) ==
    /\ ~crashed /\ pc[t] = "pop_push"
    /\ flock \in {NoThread, t}
    /\ freelist' = Append(freelist, arg[t])
    /\ flock' = NoThread
    /\ pc' = [pc EXCEPT ![t] = IF op[t] = "posix_close" THEN "call" ELSE "done"]
    /\ UNCHANGED <<nops, descriptors, dlock, op, arg, fd, val, ret, oret, nextObj, refs, closed, crashed, held>>
    /\ UNCHANGED ivars

\* ------------------------------------------- capability calls on the file
\* The methods of trait PosixFile.
FileMethods == {"read", "write", "flush", "close"}
PollMethods == {"poll_add", "poll_set", "poll_del"}

\* The method each posix_* entry point calls on the file.
MethodOf(o) ==
    CASE o = "posix_read" -> "read"
      [] o = "posix_write" -> "write"
      [] o = "posix_flush" -> "flush"
      [] o = "posix_close" -> "close"

\* Result<(), ErrorCode> values an object's own method may produce.
UnitResults == {[ok |-> TRUE, v |-> 0], [ok |-> FALSE, v |-> E_INVALID_ARGUMENT]}

\* What an implementor's own method m may answer.
OwnResults(m) == IF m \in {"read", "write"} THEN ObjResults ELSE UnitResults

\* The provided (default) methods of the trait, used by an implementor
\* that does not define m: read, write, flush and close are
\* Err(E_BAD_HANDLE); poll_add, poll_set and poll_del are todo!(), which
\* panics.
DefaultPanics(m) == m \in PollMethods
DefaultResult(m) == [ok |-> FALSE, v |-> E_BAD_HANDLE]

\* impl PosixFile for Placeholder defines read, write, flush and close as
\* panic!() and leaves the poll methods to the defaults.
PlaceholderPanics(m) == m \in FileMethods \/ DefaultPanics(m)

\* A conversion that reports every error of the object as bad-handle.
ReadReturnBadHandle(r) == IF r.ok THEN r.v ELSE 0 - E_BAD_HANDLE

\* What posix_read / posix_write make of the object's
\* Result<usize, ErrorCode>.
ReadReturn(r) == IF r.ok THEN r.v ELSE 0 - r.v

\* What posix_flush / posix_close make of the object's
\* Result<(), ErrorCode>.
CloseReturn(r) == IF r.ok THEN E_OK ELSE r.v

PosixReturn(o, r) ==
    IF o \in {"posix_read", "posix_write"} THEN ReadReturn(r) ELSE CloseReturn(r)

\* Method m is called on file v: does the call panic, and what may it
\* return otherwise (the implementor's own answer if it defines m, the
\* default if it does not).
CallPanics(v, m, own) ==
    IF v = Placeholder THEN PlaceholderPanics(m) ELSE ~own /\ DefaultPanics(m)
CallResults(m, own) == IF own THEN OwnResults(m) ELSE {DefaultResult(m)}

\* posix_read: posix_file.read(buf), posix_write: posix_file.write(buf),
\* posix_flush: posix_file.flush(), posix_close: posix_file.close(); the
\* entry point converts the result and returns it, which drops its
\* posix_file.  No lock is held.
MethodCall(t) ==
    /\ ~crashed /\ pc[t] = "call"
    /\ \E own \in BOOLEAN :
          IF CallPanics(val[t], MethodOf(op[t]), own)
          THEN /\ crashed' = TRUE
               /\ UNCHANGED <<ret, oret, closed, pc, val, refs>>
          ELSE /\ \E r \in CallResults(MethodOf(op[t]), own) :
                     /\ oret' = [oret EXCEPT ![t] = <<r>>]
                     /\ ret' = [ret EXCEPT ![t] = PosixReturn(op[t], r)]
               /\ closed' = IF op[t] = "posix_close"
                            THEN [closed EXCEPT ![val[t]] = @ + 1] ELSE closed
               /\ refs' = ArcDrop(refs, val[t])
               /\ val' = [val EXCEPT ![t] = None]
               /\ pc' = [pc EXCEPT ![t] = "done"]
               /\ UNCHANGED crashed
    /\ UNCHANGED <<nops, descriptors, freelist, dlock, flock, op, arg, fd, nextObj, held>>
    /\ UNCHANGED ivars

\* The caller of get_file calls a poll method on the Arc it got.
PollCall(t) ==
    /\ ~crashed /\ pc[t] = "done" /\ op[t] = "get_file"
    /\ val[t] # None /\ oret[t] = <<>>
    /\ \E m \in PollMethods, own \in BOOLEAN :
          IF CallPanics(val[t], m, own)
          THEN /\ crashed' = TRUE
               /\ UNCHANGED oret
          ELSE /\ \E r \in CallResults(m, own) : oret' = [oret EXCEPT ![t] = <<r>>]
               /\ UNCHANGED crashed
    /\ UNCHANGED <<nops, descriptors, freelist, dlock, flock, pc, op, arg, fd, val, ret,
                   nextObj, refs, closed, held>>
    /\ UNCHANGED ivars

\* The caller is done with the result of its call; the Arc it got from
\* get_file / pop_file is dropped.
Return(t) ==
    /\ ~crashed /\ pc[t] = "done"
    /\ refs' = ArcDrop(refs, val[t])
    /\ val' = [val EXCEPT ![t] = None]
    /\ pc' = [pc EXCEPT ![t] = "idle"]
    /\ op' = [op EXCEPT ![t] = "none"]
    /\ arg' = [arg EXCEPT ![t] = 0]
    /\ fd' = [fd EXCEPT ![t] = 0]
    /\ ret' = [ret EXCEPT ![t] = 0]
    /\ oret' = [oret EXCEPT ![t] = <<>>]
    /\ UNCHANGED <<nops, descriptors, freelist, dlock, flock, nextObj, closed, crashed, held>>
    /\ UNCHANGED ivars

\* ----------------------------------------------------- the two mutexes
\* Thread t is called into new_file or posix_close and has not yet reached
\* the first lock() of the call.
Enter(t) ==
    /\ ~crashed /\ pc[t] = "idle" /\ nops < MaxOps
    /\ \E o \in {"new_file", "posix_close"}, n \in FdArgs :
          /\ o = "new_file" => (n = 0 /\ RoomForNewFile(t))
          /\ op' = [op EXCEPT ![t] = o]
          /\ arg' = [arg EXCEPT ![t] = n]
    /\ pc' = [pc EXCEPT ![t] = "enter"]
    /\ nops' = nops + 1
    /\ UNCHANGED <<descriptors, freelist, dlock, flock, fd, val, ret, oret, nextObj, refs,
                   closed, crashed, held>>
    /\ UNCHANGED ivars

\* Thread t is called into new_file, get_file, pop_file or
\* posix_duplicate and has not yet reached the first lock() of the call.
EnterTable(t) ==
    /\ ~crashed /\ pc[t] = "idle" /\ nops < MaxOps
    /\ \E o \in {"new_file", "get_file", "pop_file", "posix_duplicate"}, n \in FdArgs :
          /\ o = "new_file" => (n = 0 /\ RoomForNewFile(t))
          /\ o = "posix_duplicate" => RoomToAllocate
          /\ op' = [op EXCEPT ![t] = o]
          /\ arg' = [arg EXCEPT ![t] = n]
    /\ pc' = [pc EXCEPT ![t] = "enter"]
    /\ nops' = nops + 1
    /\ UNCHANGED <<descriptors, freelist, dlock, flock, fd, val, ret, oret, nextObj, refs,
                   closed, crashed, held>>
    /\ UNCHANGED ivars

\* The mutex the next critical section of thread t locks:
\* self.descriptors.lock() in get, in the first block of pop, in the
\* push of get_free_fd and in insert; self.freelist.lock() in the pop of
\* get_free_fd and in the push of pop.
NextLocksDescriptors(t) ==
    \/ pc[t] = "enter" /\ op[t] # "new_file"
    \/ pc[t] \in {"push", "ins"}
NextLocksFreelist(t) ==
    \/ pc[t] = "enter" /\ op[t] = "new_file"
    \/ pc[t] \in {"gff", "pop_push"}

\* spin::Mutex::lock() returns: t holds the mutex until its critical
\* section ends.
LockDescriptors(t) ==
    /\ ~crashed /\ NextLocksDescriptors(t)
    /\ dlock = NoThread
    /\ dlock' = t
    /\ UNCHANGED <<descriptors, freelist, flock, pc, op, arg, fd, val, ret, oret, nextObj,
                   refs, closed, crashed, nops, held>>
    /\ UNCHANGED ivars

LockFreelist(t) ==
    /\ ~crashed /\ NextLocksFreelist(t)
    /\ flock = NoThread
    /\ flock' = t
    /\ UNCHANGED <<descriptors, freelist, dlock, pc, op, arg, fd, val, ret, oret, nextObj,
                   refs, closed, crashed, nops, held>>
    /\ UNCHANGED ivars

\* ------------------------------------------------------------- _rt_entry
SelfAddr == "_rt_entry"
OtherAddr == "other"
Unset == "0"

\* The stores of _rt_entry in program order: slot and value stored.
StoreOrder == <<
    [slot |-> "load_vdso", value |-> "load::load_vdso"],
    [slot |-> "log_to_kernel", value |-> "log_to_kernel"],
    [slot |-> "alloc", value |-> "rt_alloc::alloc"],
    [slot |-> "alloc_zeroed", value |-> "rt_alloc::alloc_zeroed"],
    [slot |-> "dealloc", value |-> "rt_alloc::dealloc"],
    [slot |-> "realloc", value |-> "rt_alloc::realloc"],
    [slot |-> "time_instant_now", value |-> "rt_time::time_instant_now"],
    [slot |-> "time_ticks_to_nanos", value |-> "rt_time::ticks_to_nanos"],
    [slot |-> "time_nanos_to_ticks", value |-> "rt_time::nanos_to_ticks"],
    [slot |-> "time_ticks_in_sec", value |-> "tsc_in_sec"],
    [slot |-> "time_abs_ticks_to_nanos", value |-> "rt_time::abs_ticks_to_nanos"],
    [slot |-> "futex_wait", value |-> "rt_futex::futex_wait"],
    [slot |-> "futex_wake", value |-> "rt_futex::futex_wake"],
    [slot |-> "futex_wake_all", value |-> "rt_futex::futex_wake_all"],
    [slot |-> "tls_create", value |-> "rt_tls::create"],
    [slot |-> "tls_set", value |-> "rt_tls::set"],
    [slot |-> "tls_get", value |-> "rt_tls::get"],
    [slot |-> "tls_destroy", value |-> "rt_tls::destroy"],
    [slot |-> "thread_spawn", value |-> "rt_thread::spawn"],
    [slot |-> "thread_yield", value |-> "rt_thread::yield_now"],
    [slot |-> "thread_sleep", value |-> "rt_thread::sleep"],
    [slot |-> "thread_set_name", value |-> "rt_thread::set_name"],
    [slot |-> "thread_join", value |-> "rt_thread::join"],
    [slot |-> "fs_open", value |-> "rt_fs::open"],
    [slot |-> "fs_close", value |-> "rt_fs::close"],
    [slot |-> "fs_get_file_attr", value |-> "rt_fs::get_file_attr"],
    [slot |-> "fs_fsync", value |-> "rt_fs::fsync"],
    [slot |-> "fs_datasync", value |-> "rt_fs::datasync"],
    [slot |-> "fs_truncate", value |-> "rt_fs::truncate"],
    [slot |-> "fs_read", value |-> "rt_fs::read"],
    [slot |-> "fs_write", value |-> "rt_fs::write"],
    [slot |-> "fs_seek", value |-> "rt_fs::seek"],
    [slot |-> "fs_mkdir", value |-> "rt_fs::mkdir"],
    [slot |-> "fs_unlink", value |-> "rt_fs::unlink"],
    [slot |-> "fs_rename", value |-> "rt_fs::rename"],
    [slot |-> "fs_rmdir", value |-> "rt_fs::rmdir"],
    [slot |-> "fs_rmdir_all", value |-> "rt_fs::rmdir_all"],
    [slot |-> "fs_set_perm", value |-> "rt_fs::set_perm"],
    [slot |-> "fs_stat", value |-> "rt_fs::stat"],
    [slot |-> "fs_canonicalize", value |-> "rt_fs::canonicalize"],
    [slot |-> "fs_copy", value |-> "rt_fs::copy"],
    [slot |-> "fs_opendir", value |-> "rt_fs::opendir"],
    [slot |-> "fs_closedir", value |-> "rt_fs::closedir"],
    [slot |-> "fs_readdir", value |-> "rt_fs::readdir"],
    [slot |-> "fs_getcwd", value |-> "rt_fs::getcwd"],
    [slot |-> "fs_chdir", value |-> "rt_fs::chdir"] >>

NumStores == Len(StoreOrder)
Slots == {StoreOrder[i].slot : i \in 1..NumStores}

\* The version arguments a caller passes: the supported one and others.
Versions == 0..2

InstallInit ==
    /\ ipc = "idle"
    /\ version = 0
    /\ vtable \in {[s \in Slots \cup {"vdso_entry"} |->
                      IF s = "vdso_entry" THEN a ELSE Unset] : a \in {SelfAddr, OtherAddr}}
    /\ istep = 0
    /\ fenced = FALSE
    /\ writes = [s \in Slots |-> 0]
    /\ calls = 0

\* _rt_entry(version) is called.
CallEntry ==
    /\ ~crashed /\ ipc = "idle" /\ calls < MaxCalls
    /\ \E v \in Versions : version' = v
    /\ calls' = calls + 1
    /\ istep' = 0
    /\ ipc' = "check_version"
    /\ UNCHANGED <<vtable, fenced, writes>>
    /\ UNCHANGED tvars

\* A version check that accepts every version from the supported one up.
CheckVersionAtLeast ==
    /\ ~crashed /\ ipc = "check_version"
    /\ IF version >= SupportedVersion
       THEN ipc' = "check_entry" /\ UNCHANGED crashed
       ELSE crashed' = TRUE /\ UNCHANGED ipc
    /\ UNCHANGED <<version, vtable, istep, fenced, writes, calls>>
    /\ UNCHANGED <<descriptors, freelist, dlock, flock, pc, op, arg, fd, val, ret, oret, nextObj, refs, closed, nops, held>>

\* assert_eq!(version, 1)
CheckVersion ==
    /\ ~crashed /\ ipc = "check_version"
    /\ IF version = SupportedVersion
       THEN ipc' = "check_entry" /\ UNCHANGED crashed
       ELSE crashed' = TRUE /\ UNCHANGED ipc
    /\ UNCHANGED <<version, vtable, istep, fenced, writes, calls>>
    /\ UNCHANGED <<descriptors, freelist, dlock, flock, pc, op, arg, fd, val, ret, oret, nextObj, refs, closed, nops, held>>

\* assert_eq!(vtable.vdso_entry.load(Acquire), self_addr)
CheckEntry ==
    /\ ~crashed /\ ipc = "check_entry"
    /\ IF vtable["vdso_entry"] = SelfAddr
       THEN ipc' = "store" /\ UNCHANGED crashed
       ELSE crashed' = TRUE /\ UNCHANGED ipc
    /\ UNCHANGED <<version, vtable, istep, fenced, writes, calls>>
    /\ UNCHANGED <<descriptors, freelist, dlock, flock, pc, op, arg, fd, val, ret, oret, nextObj, refs, closed, nops, held>>

\* The next vtable.<slot>.store(<value>, Relaxed) in program order.
Store ==
    /\ ~crashed /\ ipc = "store" /\ istep < NumStores
    /\ LET e == StoreOrder[istep + 1]
       IN /\ vtable' = [vtable EXCEPT ![e.slot] = e.value]
          /\ writes' = [writes EXCEPT ![e.slot] = @ + 1]
    /\ istep' = istep + 1
    /\ UNCHANGED <<ipc, version, fenced, calls>>
    /\ UNCHANGED tvars

\* A fence issued before the last store, followed by the return.
FenceBeforeLastStore ==
    /\ ~crashed /\ ipc = "store" /\ istep = NumStores - 1
    /\ fenced' = TRUE
    /\ ipc' = "idle"
    /\ UNCHANGED <<version, vtable, istep, writes, calls>>
    /\ UNCHANGED tvars

\* The final fence(Release); _rt_entry returns.
Fence ==
    /\ ~crashed /\ ipc = "store" /\ istep = NumStores
    /\ fenced' = TRUE
    /\ ipc' = "idle"
    /\ UNCHANGED <<version, vtable, istep, writes, calls>>
    /\ UNCHANGED tvars

\* --------------------------------------------------------- specifications
Init == TableInit /\ InstallInit /\ vtable["vdso_entry"] = SelfAddr

Next ==
    \E t \in Threads :
        \/ CallNewFile(t)
        \/ CallGetFile(t)
        \/ CallPopFile(t)
        \/ CallDuplicate(t)
        \/ GffPop(t)
        \/ GffPush(t)
        \/ Func(t)
        \/ InsStore(t)
        \/ PopPush(t)
        \/ Return(t)

\* The descriptor table under concurrent calls of new_file, get_file,
\* pop_file and posix_duplicate.
Spec == Init /\ [][Next]_vars

NextPosix ==
    \E t \in Threads :
        \/ CallNewFile(t)
        \/ CallGetFile(t)
        \/ PollCall(t)
        \/ CallDuplicate(t)
        \/ CallRead(t)
        \/ CallWrite(t)
        \/ CallFlush(t)
        \/ CallClose(t)
        \/ GffPop(t)
        \/ GffPush(t)
        \/ Func(t)
        \/ InsStore(t)
        \/ PopPush(t)
        \/ MethodCall(t)
        \/ Return(t)

\* The descriptor table under concurrent calls of the posix_* entry points
\* and of the poll methods on files made by new_file.
SpecPosix == Init /\ [][NextPosix]_vars

\* The table after k calls of new_file, one after the other, from the
\* empty table: handles 0..k-1 hold the first k objects.
FilesMade(k) ==
    /\ descriptors = [i \in 1..k |-> ObjNames[i]]
    /\ freelist = <<>>
    /\ dlock = NoThread
    /\ flock = NoThread
    /\ pc = [t \in Threads |-> "idle"]
    /\ op = [t \in Threads |-> "none"]
    /\ arg = [t \in Threads |-> 0]
    /\ fd = [t \in Threads |-> 0]
    /\ val = [t \in Threads |-> None]
    /\ ret = [t \in Threads |-> 0]
    /\ oret = [t \in Threads |-> <<>>]
    /\ nextObj = k
    /\ refs = [o \in Objects |-> IF \E i \in 1..k : ObjNames[i] = o THEN 1 ELSE 0]
    /\ closed = [o \in Objects |-> 0]
    /\ crashed = FALSE
    /\ held = [h \in 0..(MaxSlots - 1) |-> IF h < k THEN <<ObjNames[h + 1]>> ELSE <<>>]

InitFile ==
    /\ \E k \in 0..(IF MaxObjects < MaxSlots THEN MaxObjects ELSE MaxSlots) :
          FilesMade(k) /\ nops = k
    /\ InstallInit /\ vtable["vdso_entry"] = SelfAddr

NextFile ==
    \E t \in Threads :
        \/ CallRead(t)
        \/ CallWrite(t)
        \/ CallFlush(t)
        \/ CallClose(t)
        \/ PopPush(t)
        \/ MethodCall(t)
        \/ Return(t)

\* Files made by new_file and then used, concurrently, through
\* posix_read, posix_write, posix_flush and posix_close.
SpecFile == InitFile /\ [][NextFile]_vars

InitInstall == TableInit /\ InstallInit

NextInstall ==
    \/ CallEntry
    \/ CheckVersion
    \/ CheckEntry
    \/ Store
    \/ Fence

\* The installation of the vtable by _rt_entry.
SpecInstall == InitInstall /\ [][NextInstall]_vars

NextLocks ==
    \E t \in Threads :
        \/ Enter(t)
        \/ LockDescriptors(t)
        \/ LockFreelist(t)
        \/ pc[t] = "enter" /\ CallNewFile(t)
        \/ pc[t] = "enter" /\ CallClose(t)
        \/ GffPush(t)
        \/ Func(t)
        \/ InsStore(t)
        \/ PopPush(t)
        \/ MethodCall(t)
        \/ Return(t)

\* new_file and posix_close (an allocation with its constructor, a
\* release with its close) with the lock() of every critical section as a
\* step of its own: a thread holds a mutex from that step to the end of
\* the section.
SpecLocks == Init /\ [][NextLocks]_vars

\* No thread other than t is inside a call.
OthersIdle(t) == \A u \in Threads \ {t} : pc[u] = "idle"

\* The table holds one file; MaxOps further calls are made.
InitReuse ==
    /\ FilesMade(1) /\ nops = 0
    /\ InstallInit /\ vtable["vdso_entry"] = SelfAddr

NextReuse ==
    \E t \in Threads :
        \/ OthersIdle(t) /\ CallNewFile(t)
        \/ OthersIdle(t) /\ CallGetFile(t)
        \/ OthersIdle(t) /\ CallPopFile(t)
        \/ GffPush(t)
        \/ Func(t)
        \/ InsStore(t)
        \/ PopPush(t)
        \/ Return(t)

\* new_file, get_file and pop_file called one after the other (a call
\* starts when no other call is running) on the table that holds one file.
SpecReuse == InitReuse /\ [][NextReuse]_vars

\* --------------------------------------------------------------- typing
TypeOK ==
    /\ Len(descriptors) <= MaxSlots
    /\ \A i \in 1..Len(descriptors) : descriptors[i] \in Objects \cup {Placeholder}
    /\ \A i \in 1..Len(freelist) : freelist[i] \in 0..(Len(descriptors) - 1)
    /\ dlock \in Threads \cup {NoThread}
    /\ flock \in Threads \cup {NoThread}
    /\ \A t \in Threads : /\ op[t] \in Ops \cup {"none"}
                          /\ val[t] \in Objects \cup {Placeholder, None}
                          /\ arg[t] \in FdArgs
    /\ \A o \in Objects : refs[o] >= 0

\* ------------------------------------------------------- claim vocabulary
\* Handle h is allocated: an allocation returned it and no release of it
\* has been called since.
Allocated(h) == h \in DOMAIN held /\ held[h] # <<>>

\* Handle h is reserved by an allocation in flight (between get_free_fd
\* and the installation of the object).
Reserved(h) == \E u \in Threads : pc[u] \in {"func", "ins"} /\ fd[u] = h

\* Thread t starts a lookup (get_file, directly or from posix_read /
\* posix_duplicate), a release (pop_file, directly or from posix_close).
Lookup(t) == CallGetFile(t) \/ CallDuplicate(t) \/ CallRead(t)
Release(t) == CallPopFile(t) \/ CallClose(t)

\* Number of slots, and of thread locals, that hold object o.
SlotRefs(o) == Cardinality({i \in 1..Len(descriptors) : descriptors[i] = o})
LocalRefs(o) == Cardinality({t \in Threads : val[t] = o})

\* ---------------------------------------------------------------- claims
\* C1: two allocations never hold the same handle: no handle is the result
\* of two allocations neither of which has been released.
C1_NoSharedHandle == \A h \in DOMAIN held : Len(held[h]) <= 1

\* C2: a lookup of an allocated handle (allocate returned it, release of it
\* not yet called) finds the object that allocation installed.
C2_LookupFindsAllocated ==
    [][\A t \in Threads :
          (Lookup(t) /\ Allocated(arg'[t])) =>
              \A i \in 1..Len(held[arg'[t]]) : val'[t] = held[arg'[t]][i]]_vars

\* C3: lookup and release of a handle that is not allocated (never
\* allocated, or released and not reallocated) and not reserved by an
\* allocation in flight report not-found; the posix entry points then
\* return the bad-handle code.
C3_NotFoundWhenNotAllocated ==
    [][\A t \in Threads :
          ((Lookup(t) \/ Release(t)) /\ ~Allocated(arg'[t]) /\ ~Reserved(arg'[t])) =>
              /\ val'[t] = None
              /\ pc'[t] = "done"
              /\ op'[t] \in {"posix_read", "posix_duplicate"} => ret'[t] = 0 - E_BAD_HANDLE
              /\ op'[t] = "posix_close" => ret'[t] = E_BAD_HANDLE]_vars

\* C4: no handle value appears twice in the free list.
C4_FreeListDistinct ==
    \A i, j \in 1..Len(freelist) : i # j => freelist[i] # freelist[j]

\* C5: close is called at most once on an object, and posix_close of one
\* handle does not call it while another allocated handle still refers to
\* the object.
C5_CloseOnceAtLastHandle ==
    [][\A t \in Threads :
          (MethodCall(t) /\ op[t] = "posix_close" /\ IsObject(val[t])) =>
              /\ closed[val[t]] = 0
              /\ \A h \in DOMAIN held :
                    (h # arg[t] /\ Allocated(h)) => descriptors[h + 1] # val[t]]_vars

\* C6: posix_duplicate of an allocated handle h returns (from insert, as
\* fd) a handle different from h whose slot holds the object of h, and
\* leaves the slot of h alone, so that a release of one does not touch the
\* other.
C6_DuplicateIsNewHandle ==
    [][\A t \in Threads :
          (InsStore(t) /\ op[t] = "posix_duplicate" /\ Allocated(arg[t])) =>
              /\ fd[t] # arg[t]
              /\ descriptors'[fd[t] + 1] = val[t]
              /\ descriptors'[arg[t] + 1] = descriptors[arg[t] + 1]]_vars

\* C7: a capability call on the Placeholder of a handle that an allocation
\* in flight has reserved returns an error and does not end the process.
C7_PlaceholderFailsSafely ==
    [][\A t \in Threads :
          (MethodCall(t) /\ val[t] = Placeholder /\ Reserved(arg[t])) =>
              /\ ~crashed'
              /\ pc'[t] = "done"
              /\ ret'[t] # E_OK]_vars

\* C8: reuse recycles the index, not the object: the occupant of an
\* allocated slot is the object built by the latest allocation that
\* returned the handle, and an object that any slot or any reference
\* obtained earlier still designates is not destroyed (its strong count is
\* positive) whatever has since happened to the index it was reached by.
C8_ReuseKeepsOldObject ==
    /\ \A h \in DOMAIN held :
          Allocated(h) => /\ HasEntry(descriptors, h)
                          /\ Entry(descriptors, h) = Last(held[h])
    /\ \A o \in Objects :
          (SlotRefs(o) + LocalRefs(o) > 0) => refs[o] > 0

\* C8 witness: a lookup of handle 0 returned object A, which the caller
\* still holds, and slot 0 has since been released and reused for B.
C8_Witness ==
    \E t \in Threads :
        /\ pc[t] = "done" /\ op[t] = "get_file" /\ arg[t] = 0 /\ val[t] = "A"
        /\ Len(descriptors) >= 1 /\ descriptors[1] = "B"
        /\ refs["A"] >= 1

\* C9: the table refines an atomic handle-to-object map, with allocate
\* taking effect at the installation and release at the swap: a lookup or
\* release returns the object the map holds for the handle, not-found if
\* it holds none, and allocate returns a handle the map does not hold.
\* (A handle reserved by an allocation in flight is left out.)
C9_RefinesAtomicMap ==
    [][\A t \in Threads :
          /\ ((Lookup(t) \/ Release(t)) /\ ~Reserved(arg'[t])) =>
                val'[t] = IF Allocated(arg'[t]) THEN Last(held[arg'[t]]) ELSE None
          /\ (InsStore(t) /\ ~crashed') => ~Allocated(fd[t])]_vars

\* C10: _rt_entry called with a version other than 1, or with an entry
\* slot that is not its own address, aborts at the failed assertion
\* without having stored to any slot.
BadVersion == version # SupportedVersion
BadEntry == vtable["vdso_entry"] # SelfAddr

C10_InstallAbortsBeforeStores ==
    (calls > 0 /\ (BadVersion \/ BadEntry)) =>
        /\ ipc \in {"check_version", "check_entry"}
        /\ BadVersion => ipc = "check_version"
        /\ istep = 0
        /\ \A s \in Slots : writes[s] = calls - 1
        /\ calls = 1 => \A s \in Slots : vtable[s] = Unset

\* C10 witness: the call had the supported version, found a foreign entry
\* address and aborted, all slots still unset.
C10_Witness ==
    /\ crashed /\ calls = 1 /\ version = SupportedVersion
    /\ ipc = "check_entry" /\ BadEntry
    /\ \A s \in Slots : vtable[s] = Unset

\* C11: every dispatch slot is written exactly once: a second call of
\* _rt_entry writes no slot (it aborts).
C11_SlotsWrittenOnce == \A s \in Slots : writes[s] <= 1

\* The value _rt_entry stores into slot s.
StoredValue(s) == (CHOOSE e \in {StoreOrder[i] : i \in 1..NumStores} : e.slot = s).value

\* Every dispatch slot holds the address _rt_entry stores there.
AllStored(vt) == \A s \in Slots : vt[s] = StoredValue(s)

\* C12: _rt_entry returns only through the release fence, which is its
\* last step and writes no slot; when it is issued, and whenever the
\* install has returned, every slot is populated.
C12_FenceAfterAllStores ==
    /\ [][(ipc # "idle" /\ ipc' = "idle") =>
             (AllStored(vtable) /\ vtable' = vtable /\ writes' = writes /\ fenced')]_vars
    /\ [][(~fenced /\ fenced') => (AllStored(vtable) /\ ipc' = "idle")]_vars
    /\ []((calls > 0 /\ ipc = "idle") => (fenced /\ AllStored(vtable)))
    /\ [](fenced => AllStored(vtable))

\* C12 witness: the first install has returned, fence issued, every slot
\* populated by one store.
C12_Witness ==
    /\ calls = 1 /\ ipc = "idle" /\ fenced /\ ~crashed
    /\ AllStored(vtable)
    /\ \A s \in Slots : writes[s] = 1

\* C13: calling a method on an object (not the Placeholder), whether the
\* object defines the method or leaves it to the trait's default, never
\* ends the process.
C13_DefaultsNeverCrash ==
    [][\A t \in Threads :
          ((PollCall(t) \/ MethodCall(t)) /\ IsObject(val[t])) => ~crashed']_vars

\* C14: a finished posix_read / posix_write / posix_flush / posix_close
\* called no method of any object exactly when the handle had no slot,
\* and then returned E_BAD_HANDLE (negated by read and write); otherwise it
\* returned the object's own result: the byte count or the negated error
\* code from read and write, E_OK or the error code from flush and close.
C14_ResultPassedThrough ==
    \A t \in Threads :
        (pc[t] = "done" /\ op[t] \in {"posix_read", "posix_write", "posix_flush", "posix_close"}) =>
            /\ (oret[t] = <<>>) <=> ~HasEntry(descriptors, arg[t])
            /\ IF op[t] \in {"posix_read", "posix_write"}
               THEN ret[t] = IF oret[t] = <<>> THEN 0 - E_BAD_HANDLE
                             ELSE IF oret[t][1].ok THEN oret[t][1].v
                             ELSE 0 - oret[t][1].v
               ELSE ret[t] = IF oret[t] = <<>> THEN E_BAD_HANDLE
                             ELSE IF oret[t][1].ok THEN E_OK
                             ELSE oret[t][1].v

\* C14 witness: a posix_read of a live handle returned the negated error
\* code of the object while a posix_close of a handle with no slot
\* returned E_BAD_HANDLE and a posix_flush returned E_OK.
C14_Witness ==
    /\ \E t \in Threads :
          /\ pc[t] = "done" /\ op[t] = "posix_read"
          /\ oret[t] = <<[ok |-> FALSE, v |-> E_INVALID_ARGUMENT]>>
          /\ ret[t] = 0 - E_INVALID_ARGUMENT
    /\ \E u \in Threads :
          /\ pc[u] = "done" /\ op[u] \in {"posix_close", "posix_flush"}
          /\ oret[u] = <<>> /\ ret[u] = E_BAD_HANDLE

\* C15: allocate takes the index at the end of the free list, removing
\* it, when the free list is non-empty, and appends a new slot (whose
\* index is the old length) only when it is empty; the installation
\* changes the reserved slot only.  Hence, with calls made one after the
\* other: allocate(A) -> 0, allocate(B) -> 1, release(0) leaves the free
\* list [0], allocate(C) -> 0 leaves it empty, lookup(1) returns B.
C15_ReuseThenAppend ==
    [][\A t \in Threads :
          /\ CallNewFile(t) =>
                IF freelist # <<>>
                THEN /\ fd'[t] = freelist[Len(freelist)]
                     /\ freelist' = SubSeq(freelist, 1, Len(freelist) - 1)
                     /\ descriptors' = descriptors
                     /\ pc'[t] = "func"
                ELSE /\ freelist' = freelist /\ pc'[t] = "push"
          /\ Len(descriptors') # Len(descriptors) =>
                /\ freelist = <<>>
                /\ Len(descriptors') = Len(descriptors) + 1
                /\ \A i \in 1..Len(descriptors) : descriptors'[i] = descriptors[i]
                /\ \E u \in Threads : pc'[u] = "func" /\ fd'[u] = Len(descriptors)
          /\ (InsStore(t) /\ ~crashed') =>
                /\ descriptors'[fd[t] + 1] = val[t]
                /\ \A i \in 1..Len(descriptors) :
                      i # fd[t] + 1 => descriptors'[i] = descriptors[i]
                /\ Len(descriptors') = Len(descriptors)
                /\ freelist' = freelist
          /\ (CallPopFile(t) /\ Allocated(arg'[t])) =>
                \A i \in 1..Len(descriptors) :
                    i # arg'[t] + 1 => descriptors'[i] = descriptors[i]
          /\ (PopPush(t) /\ freelist = <<>>) => freelist' = <<arg[t]>>]_vars

\* C15 witness: the end of the scenario.  From the table with A at 0, four
\* calls were made: B went to 1, 0 was released, C went to 0, and the
\* lookup of 1 has returned B; the free list is empty.
C15_Witness ==
    /\ descriptors = <<"C", "B">>
    /\ freelist = <<>>
    /\ held[0] = <<"C">> /\ held[1] = <<"B">>
    /\ nops = 4
    /\ \E t \in Threads :
          pc[t] = "done" /\ op[t] = "get_file" /\ arg[t] = 1 /\ val[t] = "B"

\* C16: the handle insert is about to return, every handle an allocation
\* has returned and every index in the free list is a non-negative index
\* of an existing slot, below RtFd::MAX; posix_duplicate returns a
\* negative value only when its lookup found nothing, and that value is
\* -E_BAD_HANDLE.
ValidHandle(h) == h >= 0 /\ h < Len(descriptors) /\ h < RtFdMax

C16_HandlesInRange ==
    /\ \A t \in Threads : pc[t] \in {"func", "ins"} => ValidHandle(fd[t])
    /\ \A h \in DOMAIN held : Allocated(h) => ValidHandle(h)
    /\ \A i \in 1..Len(freelist) : ValidHandle(freelist[i])
    /\ \A t \in Threads :
          (pc[t] = "done" /\ op[t] = "posix_duplicate") =>
              /\ val[t] = None
              /\ ret[t] = 0 - E_BAD_HANDLE
              /\ ret[t] < 0
              /\ ~ValidHandle(ret[t])

\* C16 witness: new_file returned 0, a posix_duplicate of it returned 1,
\* and a posix_duplicate of a handle that was not found has returned the
\* negative code.
C16_Witness ==
    /\ descriptors = <<"A", "A">>
    /\ held[0] = <<"A">> /\ held[1] = <<"A">>
    /\ \E t \in Threads :
          pc[t] = "done" /\ op[t] = "posix_duplicate" /\ ret[t] < 0

\* C17: a thread that runs a constructor (position "func") or a method
\* of a file (position "call") holds neither mutex; a release holds no
\* mutex between the swap and the push onto the free list, and a call
\* that has returned holds none.
C17_NoLockInUserCode ==
    \A t \in Threads :
        /\ pc[t] \in {"func", "call", "pop_push", "gff", "idle", "done"} => dlock # t
        /\ pc[t] \in {"func", "call", "push", "ins", "idle", "done"} => flock # t

\* C17 witness: a thread is about to run close() on the object its
\* posix_close removed while another thread holds the slot-array mutex.
C17_Witness ==
    \E t, u \in Threads :
        /\ t # u
        /\ pc[t] = "call" /\ op[t] = "posix_close" /\ IsObject(val[t])
        /\ dlock = u /\ flock = NoThread

\* C18: every slot is live (holds an object, its index not in the free
\* list) or free (holds a Placeholder, its index in the free list), in
\* every state, those inside running calls included.
InFreelist(h) == \E i \in 1..Len(freelist) : freelist[i] = h

C18_SlotLiveOrFree ==
    \A h \in 0..(Len(descriptors) - 1) :
        \/ IsObject(Entry(descriptors, h)) /\ ~InFreelist(h)
        \/ Entry(descriptors, h) = Placeholder /\ InFreelist(h)

\* C19: the slot array never shrinks, and a slot is appended only when the
\* free list holds no index to reuse.
C19_GrowsOnlyWhenNoFreeIndex ==
    [][/\ Len(descriptors') >= Len(descriptors)
       /\ Len(descriptors') > Len(descriptors) => freelist = <<>>]_vars

\* The descriptor table after the first new_file call has returned, under
\* concurrent calls of new_file, get_file, pop_file and posix_duplicate.
InitLookup ==
    /\ FilesMade(1) /\ nops = 1
    /\ InstallInit /\ vtable["vdso_entry"] = SelfAddr

NextLookup ==
    \E t \in Threads :
        \/ CallNewFile(t)
        \/ CallGetFile(t)
        \/ CallPopFile(t)
        \/ CallDuplicate(t)
        \/ GffPop(t)
        \/ GffPush(t)
        \/ Func(t)
        \/ InsStore(t)
        \/ PopPush(t)
        \/ Return(t)

SpecLookup == InitLookup /\ [][NextLookup]_vars

\* C20: the step in which a call runs Descriptors::get (get_file, or
\* posix_read, posix_write, posix_flush, posix_duplicate through it)
\* leaves the slot array and the free list as they were, whatever the
\* other threads are in the middle of.
C20_LookupLeavesTable ==
    [][\A t \in Threads :
          (pc[t] = "idle" /\ op'[t] \in {"get_file", "posix_read", "posix_write",
                                         "posix_flush", "posix_duplicate"}) =>
              /\ descriptors' = descriptors
              /\ freelist' = freelist]_vars

\* C20 witness: a lookup of handle 0 has returned its object, the slot
\* still holds it, while another thread is inside an allocation and the
\* free list is not empty.
C20_Witness ==
    \E t, u \in Threads :
        /\ pc[t] = "done" /\ op[t] = "get_file" /\ arg[t] = 0
        /\ IsObject(val[t]) /\ descriptors[1] = val[t]
        /\ pc[u] \in {"func", "ins"}
        /\ freelist # <<>>

\* The steps of thread t inside a call it has been called into: the
\* lock() of its next critical section, the section, the constructor.
Proceed(t) ==
    \/ LockDescriptors(t)
    \/ LockFreelist(t)
    \/ pc[t] = "enter" /\ CallNewFile(t)
    \/ pc[t] = "enter" /\ CallGetFile(t)
    \/ pc[t] = "enter" /\ CallPopFile(t)
    \/ pc[t] = "enter" /\ CallDuplicate(t)
    \/ GffPop(t)
    \/ GffPush(t)
    \/ Func(t)
    \/ InsStore(t)
    \/ PopPush(t)
    \/ Return(t)

\* The table after the first new_file and the lookups that followed it
\* have returned: two calls of the MaxOps remain.
InitLive ==
    /\ FilesMade(1) /\ nops = MaxOps - 2
    /\ InstallInit /\ vtable["vdso_entry"] = SelfAddr

NextLive == \E t \in Threads : EnterTable(t) \/ Proceed(t)

\* new_file, get_file, pop_file and posix_duplicate with the lock() of
\* every critical section as a step of its own, every thread that is
\* inside a call being scheduled again and again (its constructor
\* returns: Func is one of its steps).
SpecLive ==
    /\ InitLive /\ [][NextLive]_vars
    /\ \A t \in Threads : WF_vars(Proceed(t))

\* C21: no thread holds the slot-array mutex and the free-list mutex at
\* the same time, and every call of new_file, get_file, pop_file or
\* posix_duplicate a thread is inside of completes.
C21_NoDeadlock ==
    /\ [](\A t \in Threads : ~(dlock = t /\ flock = t))
    /\ \A t \in Threads : Running(t) ~> ~Running(t)

\* C21 witness: one thread holds the slot-array mutex inside insert
\* while another holds the free-list mutex inside pop.
C21_Witness ==
    \E t, u \in Threads :
        /\ t # u
        /\ pc[t] = "ins" /\ dlock = t
        /\ pc[u] = "pop_push" /\ flock = u

====
